---- MODULE Spec2Model ----
(***************************************************************************)
(* A model of the requirement-quality analyzer: the two extract_json       *)
(* routines (req_analyzer.py, streamlit_app.py), the report validation of  *)
(* smoke_test.py, the console pipeline req_analyzer.main and the Streamlit *)
(* page's button handlers with its session state.                          *)
(*                                                                         *)
(* A text is a sequence of pieces.  A piece is one character ("{", "}",    *)
(* "[", "]", a double quote, ":", ",", "-", a digit, " ", "\n") or a run   *)
(* of letters taken as one piece ("summary", "true").  Python's indices    *)
(* are kept 0-based, with -1 for "not found", as str.find returns them.    *)
(***************************************************************************)
EXTENDS Integers, Sequences, FiniteSets, TLC

VARIABLES
    text,              \* extract_json's argument
    ra_out,            \* outcome of req_analyzer.extract_json(text), or Pending
    st_out,            \* outcome of streamlit_app.extract_json(text), or Pending
    last_report_json,  \* the file last_report.json: [exists, content]
    smoke_out,         \* outcome of smoke_test.main, or SmokePending
    console,           \* the last run of req_analyzer.main: [status, stdout, wrote]
    api_key,           \* whether GEMINI_API_KEY is set for the Streamlit page
    session,           \* st.session_state
    requirement_area,  \* the text in the Analyzer tab's "Requirement" area
    agent_requirement, \* the text in the "Requirement (Agent Mode)" area
    ans_inputs,        \* the text in each answer input, by widget key
    run,               \* the last run of the script: [button, page, crashed, call]
    gen                \* what the last successful Generate stored: [set, req, questions]

extractVars == <<text, ra_out, st_out>>
consoleVars == <<last_report_json, smoke_out, console>>
pageVars == <<api_key, session, requirement_area, agent_requirement, ans_inputs, run, gen>>
vars == <<text, ra_out, st_out, last_report_json, smoke_out, console,
          api_key, session, requirement_area, agent_requirement, ans_inputs, run, gen>>

----------------------------------------------------------------------------
(* Bounds of the exhaustive text enumeration. *)
MaxLen == 5

(* How many required keys a generated report may lack, and how far beyond  *)
(* the ends of the score range the generated scores go.                    *)
MaxMissing == 2
ScoreMargin == 1

(* How many clarifying questions a generated reply lists. *)
MaxQuestions == 2

Quote == "\""

(* The pieces the exhaustive enumeration draws from. *)
Alphabet == {"{", "}", "[", "]", Quote, ":", ",", "1", " "}

----------------------------------------------------------------------------
(* JSON values as json.loads builds them: dict, list, str, int, bool,      *)
(* None.  A dict keeps its keys in insertion order (k) and maps each key   *)
(* to its value (v).                                                       *)
JNone == [k |-> <<>>, t |-> "none", v |-> <<>>]
JNull == [k |-> <<>>, t |-> "null", v |-> <<>>]
JBool(b) == [k |-> <<>>, t |-> "bool", v |-> b]
JInt(n) == [k |-> <<>>, t |-> "int", v |-> n]
JStr(s) == [k |-> <<>>, t |-> "str", v |-> s]
JList(s) == [k |-> <<>>, t |-> "list", v |-> s]
JDict(keys, f) == [k |-> keys, t |-> "dict", v |-> f]

SeqRange(s) == {s[i] : i \in 1..Len(s)}

(* dict[key] = val: a new key is appended, an old key keeps its place. *)
DictPut(d, key, val) ==
    JDict(IF key \in SeqRange(d.k) THEN d.k ELSE Append(d.k, key),
          [x \in SeqRange(d.k) \cup {key} |-> IF x = key THEN val ELSE d.v[x]])

(* Python's == on parsed JSON: dicts compare without regard to key order. *)
RECURSIVE JEq(_, _)
JEq(a, b) ==
    /\ a.t = b.t
    /\ CASE a.t = "dict" ->
              /\ SeqRange(a.k) = SeqRange(b.k)
              /\ \A x \in SeqRange(a.k) : JEq(a.v[x], b.v[x])
         [] a.t = "list" ->
              /\ Len(a.v) = Len(b.v)
              /\ \A i \in 1..Len(a.v) : JEq(a.v[i], b.v[i])
         [] OTHER -> a.v = b.v

----------------------------------------------------------------------------
(* json.loads: the decoder of the standard library, on pieces. *)
IsSpace(c) == c \in {" ", "\n"}

Digits == {"0", "1", "2", "3", "4", "5", "6", "7", "8", "9"}

DigitVal(c) ==
    CASE c = "0" -> 0 [] c = "1" -> 1 [] c = "2" -> 2 [] c = "3" -> 3
      [] c = "4" -> 4 [] c = "5" -> 5 [] c = "6" -> 6 [] c = "7" -> 7
      [] c = "8" -> 8 [] c = "9" -> 9

RECURSIVE SkipWs(_, _)
SkipWs(s, i) == IF i <= Len(s) /\ IsSpace(s[i]) THEN SkipWs(s, i + 1) ELSE i

ParseFail == [ok |-> FALSE, val |-> JNone, next |-> 0]
ParseOk(val, next) == [ok |-> TRUE, val |-> val, next |-> next]

(* The position of the closing quote of a string opened before i, or 0. *)
RECURSIVE ScanString(_, _)
ScanString(s, i) ==
    IF i > Len(s) THEN 0
    ELSE IF s[i] = Quote THEN i
    ELSE IF s[i] = "\n" THEN 0
    ELSE ScanString(s, i + 1)

(* The digits from i on: <<their value continued from acc, the next position>>. *)
RECURSIVE ScanDigits(_, _, _)
ScanDigits(s, i, acc) ==
    IF i <= Len(s) /\ s[i] \in Digits
    THEN ScanDigits(s, i + 1, 10 * acc + DigitVal(s[i]))
    ELSE <<acc, i>>

(* NUMBER_RE, integer part: an optional "-", then "0" or a run of digits  *)
(* not starting with "0"; i is at the first digit.                         *)
ParseInt(s, i, sign) ==
    IF i > Len(s) \/ s[i] \notin Digits THEN ParseFail
    ELSE IF s[i] = "0" THEN ParseOk(JInt(0), i + 1)
    ELSE LET r == ScanDigits(s, i, 0) IN ParseOk(JInt(sign * r[1]), r[2])

RECURSIVE ParseValue(_, _)
RECURSIVE ParseElements(_, _, _)
RECURSIVE ParseMembers(_, _, _)

(* scan_once at position i (no whitespace is skipped here). *)
ParseValue(s, i) ==
    IF i > Len(s) THEN ParseFail
    ELSE CASE s[i] = Quote ->
                LET j == ScanString(s, i + 1)
                IN  IF j = 0 THEN ParseFail
                    ELSE ParseOk(JStr(SubSeq(s, i + 1, j - 1)), j + 1)
           [] s[i] = "{" ->
                LET j == SkipWs(s, i + 1)
                IN  IF j <= Len(s) /\ s[j] = "}"
                    THEN ParseOk(JDict(<<>>, <<>>), j + 1)
                    ELSE ParseMembers(s, j, JDict(<<>>, <<>>))
           [] s[i] = "[" ->
                LET j == SkipWs(s, i + 1)
                IN  IF j <= Len(s) /\ s[j] = "]"
                    THEN ParseOk(JList(<<>>), j + 1)
                    ELSE ParseElements(s, j, <<>>)
           [] s[i] = "-" -> ParseInt(s, i + 1, -1)
           [] s[i] \in Digits -> ParseInt(s, i, 1)
           [] s[i] = "true" -> ParseOk(JBool(TRUE), i + 1)
           [] s[i] = "false" -> ParseOk(JBool(FALSE), i + 1)
           [] s[i] = "null" -> ParseOk(JNull, i + 1)
           [] OTHER -> ParseFail

(* JSONArray's loop: i is at the start of an element. *)
ParseElements(s, i, acc) ==
    LET e == ParseValue(s, i)
    IN  IF ~e.ok THEN ParseFail
        ELSE LET j == SkipWs(s, e.next)
                 got == Append(acc, e.val)
             IN  IF j > Len(s) THEN ParseFail
                 ELSE IF s[j] = "]" THEN ParseOk(JList(got), j + 1)
                 ELSE IF s[j] = "," THEN ParseElements(s, SkipWs(s, j + 1), got)
                 ELSE ParseFail

(* JSONObject's loop: i is where a property name must open. *)
ParseMembers(s, i, acc) ==
    IF i > Len(s) \/ s[i] # Quote THEN ParseFail
    ELSE LET q == ScanString(s, i + 1)
         IN  IF q = 0 THEN ParseFail
             ELSE LET key == SubSeq(s, i + 1, q - 1)
                      c == SkipWs(s, q + 1)
                  IN  IF c > Len(s) \/ s[c] # ":" THEN ParseFail
                      ELSE LET e == ParseValue(s, SkipWs(s, c + 1))
                           IN  IF ~e.ok THEN ParseFail
                               ELSE LET j == SkipWs(s, e.next)
                                        got == DictPut(acc, key, e.val)
                                    IN  IF j > Len(s) THEN ParseFail
                                        ELSE IF s[j] = "}" THEN ParseOk(got, j + 1)
                                        ELSE IF s[j] = ","
                                             THEN ParseMembers(s, SkipWs(s, j + 1), got)
                                        ELSE ParseFail

(* json.loads(doc): leading whitespace, one value, trailing whitespace,    *)
(* and nothing else ("Extra data").                                        *)
LoadsEnd(doc, r) ==
    IF r.ok /\ SkipWs(doc, r.next) = Len(doc) + 1
    THEN [ok |-> TRUE, val |-> r.val]
    ELSE [ok |-> FALSE, val |-> JNone]

Loads(doc) == LoadsEnd(doc, ParseValue(doc, SkipWs(doc, 1)))

----------------------------------------------------------------------------
(* Python string helpers, 0-based. *)
Find(s, c) ==
    IF \E i \in 1..Len(s) : s[i] = c
    THEN (CHOOSE i \in 1..Len(s) : s[i] = c /\ \A j \in 1..(i - 1) : s[j] # c) - 1
    ELSE -1

RFind(s, c) ==
    IF \E i \in 1..Len(s) : s[i] = c
    THEN (CHOOSE i \in 1..Len(s) : s[i] = c /\ \A j \in (i + 1)..Len(s) : s[j] # c) - 1
    ELSE -1

(* s[a:b] for 0 <= a and 0 <= b: empty when b <= a. *)
PySlice(s, a, b) ==
    LET hi == IF b > Len(s) THEN Len(s) ELSE b
    IN  IF a >= hi THEN <<>> ELSE SubSeq(s, a + 1, hi)

RECURSIVE LStrip(_)
LStrip(s) == IF s # <<>> /\ IsSpace(Head(s)) THEN LStrip(Tail(s)) ELSE s

RECURSIVE RStrip(_)
RStrip(s) ==
    IF s # <<>> /\ IsSpace(s[Len(s)]) THEN RStrip(SubSeq(s, 1, Len(s) - 1)) ELSE s

Strip(s) == RStrip(LStrip(s))

----------------------------------------------------------------------------
(* Outcomes of extract_json: a returned value, or the exception raised     *)
(* with the texts it carries; loads lists the documents handed to          *)
(* json.loads, in order.                                                   *)
Pending == [kind |-> "pending", value |-> JNone, carried |-> <<>>, loads |-> <<>>]
Returned(val, docs) ==
    [kind |-> "return", value |-> val, carried |-> <<>>, loads |-> docs]
Raised(kind, carried, docs) ==
    [kind |-> kind, value |-> JNone, carried |-> carried, loads |-> docs]

(* "return json.loads(doc)": r is what json.loads(doc) gives. *)
ReqLoaded(doc, r) ==
    IF r.ok THEN Returned(r.val, <<doc>>)
    ELSE Raised("JSONDecodeError", <<doc>>, <<doc>>)

(* req_analyzer.extract_json from its "if" on: start and end are what      *)
(* find and rfind gave.                                                    *)
ReqFromIndices(t, start, end) ==
    IF start = -1 \/ end = -1
    THEN Raised("NoJsonFound", <<t>>, <<>>)
    ELSE ReqLoaded(PySlice(t, start, end + 1), Loads(PySlice(t, start, end + 1)))

(* req_analyzer.extract_json *)
ReqExtractJson(t) == ReqFromIndices(t, Find(t, "{"), RFind(t, "}"))

(* re.search(r"\{.*\}", s, re.DOTALL): the leftmost "{" that a "}" follows, *)
(* through the last "}".                                                    *)
BlockSearch(s) ==
    LET opens == {i \in 1..Len(s) : s[i] = "{" /\ \E j \in (i + 1)..Len(s) : s[j] = "}"}
    IN  IF opens = {} THEN [found |-> FALSE, group |-> <<>>]
        ELSE LET a == CHOOSE i \in opens : \A x \in opens : i <= x
                 b == CHOOSE j \in a..Len(s) : s[j] = "}" /\ \A y \in (j + 1)..Len(s) : s[y] # "}"
             IN  [found |-> TRUE, group |-> SubSeq(s, a, b)]

(* Step 2's "try: return json.loads(json_str)": r is what json.loads gives. *)
StBlockLoaded(s, json_str, r) ==
    IF r.ok THEN Returned(r.val, <<s, json_str>>)
    ELSE Raised("FailedToParse", <<json_str, s>>, <<s, json_str>>)

(* Step 2, on the match m of the block pattern. *)
StBlock(s, m) ==
    IF ~m.found THEN Raised("NoJsonFound", <<s>>, <<s>>)
    ELSE StBlockLoaded(s, m.group, Loads(m.group))

(* Step 1, the direct parse of the stripped text s, then step 2. *)
StDirect(s, direct) ==
    IF direct.ok THEN Returned(direct.val, <<s>>) ELSE StBlock(s, BlockSearch(s))

(* streamlit_app.extract_json *)
StExtractJson(t) == StDirect(Strip(t), Loads(Strip(t)))

----------------------------------------------------------------------------
(* json.dumps(value, indent=2), on pieces. *)
DigitSeq == <<"0", "1", "2", "3", "4", "5", "6", "7", "8", "9">>

RECURSIVE NatPieces(_)
NatPieces(n) ==
    IF n < 10 THEN <<DigitSeq[n + 1]>>
    ELSE Append(NatPieces(n \div 10), DigitSeq[(n % 10) + 1])

IntPieces(n) == IF n < 0 THEN <<"-">> \o NatPieces(0 - n) ELSE NatPieces(n)

NewlineIndent(level) == <<"\n">> \o [i \in 1..(2 * level) |-> " "]

RECURSIVE DumpsAt(_, _)
RECURSIVE DumpMembers(_, _, _)
RECURSIVE DumpElements(_, _, _)

DumpsAt(val, level) ==
    CASE val.t = "dict" ->
            IF val.k = <<>> THEN <<"{", "}">>
            ELSE <<"{">> \o DumpMembers(val, 1, level + 1)
                         \o NewlineIndent(level) \o <<"}">>
      [] val.t = "list" ->
            IF val.v = <<>> THEN <<"[", "]">>
            ELSE <<"[">> \o DumpElements(val.v, 1, level + 1)
                         \o NewlineIndent(level) \o <<"]">>
      [] val.t = "str" -> <<Quote>> \o val.v \o <<Quote>>
      [] val.t = "int" -> IntPieces(val.v)
      [] val.t = "bool" -> IF val.v THEN <<"true">> ELSE <<"false">>
      [] OTHER -> <<"null">>

DumpMembers(d, i, level) ==
    IF i > Len(d.k) THEN <<>>
    ELSE NewlineIndent(level) \o <<Quote>> \o d.k[i] \o <<Quote, ":", " ">>
            \o DumpsAt(d.v[d.k[i]], level)
            \o (IF i < Len(d.k) THEN <<",">> ELSE <<>>)
            \o DumpMembers(d, i + 1, level)

DumpElements(items, i, level) ==
    IF i > Len(items) THEN <<>>
    ELSE NewlineIndent(level) \o DumpsAt(items[i], level)
            \o (IF i < Len(items) THEN <<",">> ELSE <<>>)
            \o DumpElements(items, i + 1, level)

Dumps(val) == DumpsAt(val, 0)

----------------------------------------------------------------------------
(* smoke_test.py *)
REQUIRED_KEYS ==
    << <<"summary", "str">>,
       <<"clarity_score", "int">>,
       <<"clarity_score_reason", "str">>,
       <<"ambiguities", "list">>,
       <<"missing_information", "list">>,
       <<"assumptions", "list">>,
       <<"risks_and_dependencies", "list">>,
       <<"edge_cases", "list">>,
       <<"acceptance_criteria", "list">>,
       <<"test_scenarios", "list">> >>

MinScore == 0
MaxScore == 100

(* isinstance(val, ty): bool is a subclass of int. *)
IsInstance(val, ty) ==
    CASE ty = "str" -> val.t = "str"
      [] ty = "int" -> val.t \in {"int", "bool"}
      [] ty = "list" -> val.t = "list"

(* The value of an int or a bool in a comparison. *)
AsNumber(val) == IF val.t = "bool" THEN (IF val.v THEN 1 ELSE 0) ELSE val.v

ScoreAboveMin(cs) == MinScore < cs /\ cs <= MaxScore

(* 0 <= cs <= 100 *)
ScoreInRange(cs) == MinScore <= cs /\ cs <= MaxScore

SmokePending == [exit |-> -1, msg |-> <<"pending">>]
SmokeOk == [exit |-> 0, msg |-> <<"OK: last_report.json looks valid">>]
SmokeFail(what, arg) == [exit |-> 2, msg |-> <<"FAIL", what>> \o arg]
SmokeCrash(exc) == [exit |-> 1, msg |-> <<"Traceback", exc>>]

(* k in data, for the value json.loads returned *)
KeyIn(key, data) ==
    CASE data.t = "dict" -> <<key>> \in SeqRange(data.k)
      [] data.t = "list" -> \E i \in 1..Len(data.v) : data.v[i] = JStr(<<key>>)
      [] data.t = "str" -> key \in SeqRange(data.v)
      [] OTHER -> FALSE

(* The loop over REQUIRED_KEYS from its i-th entry, then the range check. *)
RECURSIVE CheckKeys(_, _)
CheckKeys(data, i) ==
    IF i > Len(REQUIRED_KEYS)
    THEN IF ~ScoreInRange(AsNumber(data.v[<<"clarity_score">>]))
         THEN SmokeFail("clarity_score out of range", <<data.v[<<"clarity_score">>]>>)
         ELSE SmokeOk
    ELSE LET key == REQUIRED_KEYS[i][1]
             ty == REQUIRED_KEYS[i][2]
         IN  IF data.t \notin {"dict", "list", "str"} THEN SmokeCrash("TypeError")
             ELSE IF ~KeyIn(key, data) THEN SmokeFail("missing key", <<key>>)
             ELSE IF data.t # "dict" THEN SmokeCrash("TypeError")
             ELSE IF ~IsInstance(data.v[<<key>>], ty)
                  THEN SmokeFail("wrong type", <<key, ty, data.v[<<key>>].t>>)
             ELSE CheckKeys(data, i + 1)

File(content) == [exists |-> TRUE, content |-> content]
NoFile == [exists |-> FALSE, content |-> <<>>]

(* main from "for k, t in REQUIRED_KEYS.items()" on: r is what json.loads  *)
(* gave for the file's text.                                               *)
SmokeLoaded(r) == IF ~r.ok THEN SmokeCrash("JSONDecodeError") ELSE CheckKeys(r.val, 1)

(* smoke_test.main on the file *)
SmokeMain(file) ==
    IF ~file.exists THEN SmokeFail("not found", <<>>)
    ELSE SmokeLoaded(Loads(file.content))

----------------------------------------------------------------------------
(* Reports to validate: a valid Quality Report, less up to MaxMissing of   *)
(* its keys, with any score around the ends of the range, and with at most *)
(* one value of another kind.                                              *)
Keys == {REQUIRED_KEYS[i][1] : i \in 1..Len(REQUIRED_KEYS)}

SampleValue(ty, score) ==
    CASE ty = "str" -> JStr(<<"ok">>)
      [] ty = "int" -> JInt(score)
      [] ty = "list" -> JList(<<JStr(<<"item">>)>>)

OtherKinds == {JNull, JBool(TRUE), JInt(7), JStr(<<"x">>), JList(<<>>)}

RECURSIVE BuildReport(_, _, _, _, _)
BuildReport(i, missing, score, bad, badValue) ==
    IF i = 0 THEN JDict(<<>>, <<>>)
    ELSE LET rest == BuildReport(i - 1, missing, score, bad, badValue)
             key == REQUIRED_KEYS[i][1]
         IN  IF key \in missing THEN rest
             ELSE DictPut(rest, <<key>>,
                          IF key = bad THEN badValue
                          ELSE SampleValue(REQUIRED_KEYS[i][2], score))

ScoreInputs ==
    ((MinScore - ScoreMargin)..(MinScore + ScoreMargin))
        \cup ((MaxScore - ScoreMargin)..(MaxScore + ScoreMargin))

ReportInputs ==
    {BuildReport(Len(REQUIRED_KEYS), missing, score, "", JNull) :
        missing \in {m \in SUBSET Keys : Cardinality(m) <= MaxMissing},
        score \in ScoreInputs}
    \cup
    {BuildReport(Len(REQUIRED_KEYS), {}, score, bad, badValue) :
        score \in ScoreInputs, bad \in Keys, badValue \in OtherKinds}

----------------------------------------------------------------------------
(* Python object protocol on parsed JSON. *)

(* bool(val) *)
Truthy(val) ==
    CASE val.t = "dict" -> val.k # <<>>
      [] val.t = "list" -> val.v # <<>>
      [] val.t = "str" -> val.v # <<>>
      [] val.t = "int" -> val.v # 0
      [] val.t = "bool" -> val.v
      [] OTHER -> FALSE

(* Whether "for x in val" runs rather than raising TypeError. *)
Iterable(val) == val.t \in {"dict", "list", "str"}

(* list(val): a dict gives its keys, a str its characters. *)
Items(val) ==
    CASE val.t = "list" -> val.v
      [] val.t = "dict" -> [i \in 1..Len(val.k) |-> JStr(val.k[i])]
      [] val.t = "str" -> [i \in 1..Len(val.v) |-> JStr(<<val.v[i]>>)]
      [] OTHER -> <<>>

(* d.get(key, default), d a dict *)
Get(d, key, default) == IF <<key>> \in SeqRange(d.k) THEN d.v[<<key>>] ELSE default

----------------------------------------------------------------------------
(* req_analyzer.py: the console pipeline. *)

(* read_requirement on the lines typed: EOFError when input() runs out     *)
(* before an empty line.                                                   *)
RECURSIVE ReadLines(_, _, _)
ReadLines(lines, i, acc) ==
    IF i > Len(lines) THEN [eof |-> TRUE, value |-> <<>>]
    ELSE IF Strip(lines[i]) = <<>> THEN [eof |-> FALSE, value |-> Strip(acc)]
    ELSE ReadLines(lines, i + 1,
                   IF i = 1 THEN lines[i] ELSE acc \o <<"\n">> \o lines[i])

ReadRequirement(lines) == ReadLines(lines, 1, <<>>)

Line(what, val) == [line |-> what, val |-> val]

ListSections ==
    << <<"Ambiguities:", "ambiguities">>,
       <<"Missing information:", "missing_information">>,
       <<"Assumptions:", "assumptions">>,
       <<"Risks & dependencies:", "risks_and_dependencies">>,
       <<"Edge cases:", "edge_cases">>,
       <<"Acceptance criteria:", "acceptance_criteria">>,
       <<"Suggested test scenarios:", "test_scenarios">> >>

(* show_list(title, items): the lines it prints, and whether it returned. *)
ShowList(title, items) ==
    IF ~Truthy(items)
    THEN [ok |-> TRUE, out |-> <<Line(title, JNone), Line("- (none)", JNone)>>]
    ELSE IF ~Iterable(items)
    THEN [ok |-> FALSE, out |-> <<Line(title, JNone)>>]
    ELSE [ok |-> TRUE,
          out |-> <<Line(title, JNone)>>
                    \o [i \in 1..Len(Items(items)) |-> Line("-", Items(items)[i])]]

(* The show_list calls from the i-th on, after `out` was printed. *)
RECURSIVE ShowLists(_, _, _)
RECURSIVE ShowListsAfter(_, _, _, _)
ShowLists(report, i, out) ==
    IF i > Len(ListSections) THEN [ok |-> TRUE, out |-> out]
    ELSE ShowListsAfter(report, i, out,
                        ShowList(ListSections[i][1],
                                 Get(report, ListSections[i][2], JList(<<>>))))

(* The calls after the i-th, which gave `one`. *)
ShowListsAfter(report, i, out, one) ==
    IF ~one.ok THEN [ok |-> FALSE, out |-> out \o one.out]
    ELSE ShowLists(report, i + 1, out \o one.out)

(* A run that failed or stopped early leaves the file as it was. *)
ConsoleRun(status, stdout, file) ==
    [status |-> status, stdout |-> stdout, file |-> file, wrote |-> FALSE]

PromptLine == Line("Paste your requirement. Press Enter on an empty line to finish:", JNone)

(* The lines of the report before the lists. *)
ReportHead(report) ==
    << Line(" Requirement Review Report", JNone),
       Line("Summary:", Get(report, "summary", JNull)),
       Line("Clarity Score:", Get(report, "clarity_score", JNull)),
       Line("Reason:", Get(report, "clarity_score_reason", JNull)) >>

(* main(): lines are typed in, hasKey tells whether GEMINI_API_KEY is set, *)
(* reply is what generate_content does, file is last_report.json before    *)
(* the run.                                                                *)
(* main from the show_list calls on: lists is what they printed. *)
MainPrinted(report, lists, file) ==
    IF ~lists.ok
    THEN ConsoleRun("TypeError", <<PromptLine>> \o ReportHead(report) \o lists.out, file)
    ELSE [status |-> "done",
          stdout |-> <<PromptLine>> \o ReportHead(report) \o lists.out
                       \o <<Line("Saved JSON output to last_report.json", JNone)>>,
          file |-> File(Dumps(report)),
          wrote |-> TRUE]

(* main after "report = extract_json(raw_text)", which gave `extracted`. *)
MainExtracted(extracted, file) ==
    IF extracted.kind # "return" THEN ConsoleRun(extracted.kind, <<PromptLine>>, file)
    ELSE MainPrinted(extracted.value, ShowLists(extracted.value, 1, <<>>), file)

(* main after "requirement = read_requirement()". *)
MainRead(requirement, hasKey, reply, file) ==
    IF requirement.eof THEN ConsoleRun("EOFError", <<PromptLine>>, file)
    ELSE IF requirement.value = <<>>
    THEN ConsoleRun("no requirement",
                    <<PromptLine, Line("No requirement provided. Exiting.", JNone)>>,
                    file)
    ELSE IF ~hasKey THEN ConsoleRun("KeyError", <<PromptLine>>, file)
    ELSE IF reply.kind = "raise" THEN ConsoleRun("TransportError", <<PromptLine>>, file)
    ELSE MainExtracted(
            ReqExtractJson(Strip(IF reply.kind = "none" THEN <<>> ELSE reply.text)),
            file)

Main(lines, hasKey, reply, file) == MainRead(ReadRequirement(lines), hasKey, reply, file)

----------------------------------------------------------------------------
(* streamlit_app.py: the page. *)
UI(el, val) == [el |-> el, val |-> val]
Msg(m) == JStr(<<m>>)

(* str(val), as an f-string formats it (a list or dict is approximated by  *)
(* its JSON text).                                                         *)
PyStr(val) ==
    CASE val.t = "str" -> val.v
      [] val.t = "int" -> IntPieces(val.v)
      [] val.t = "bool" -> IF val.v THEN <<"True">> ELSE <<"False">>
      [] val.t \in {"null", "none"} -> <<"None">>
      [] OTHER -> Dumps(val)

NoCall == [made |-> FALSE, requirement |-> <<>>, q_and_a |-> <<>>, qa_text |-> <<>>]

LlmOk(val) == [ok |-> TRUE, value |-> val, error |-> "none"]
LlmError(exc) == [ok |-> FALSE, value |-> JNone, error |-> exc]

(* "return extract_json(resp.text)": out is extract_json's outcome. *)
LlmExtracted(out) == IF out.kind = "return" THEN LlmOk(out.value) ELSE LlmError(out.kind)

(* call_llm: get_client, generate_content, extract_json(resp.text) *)
CallLlm(hasKey, reply) ==
    IF ~hasKey THEN LlmError("RuntimeError")
    ELSE IF reply.kind = "raise" THEN LlmError("TransportError")
    ELSE IF reply.kind = "none" THEN LlmError("AttributeError")
    ELSE LlmExtracted(StExtractJson(reply.text))

(* int(score) for a str: digits, with an optional sign and outer blanks. *)
SignedDigits(body) ==
    /\ body # <<>>
    /\ \A i \in 1..Len(body) : body[i] \in Digits \/ (i = 1 /\ body[i] = "-")
    /\ body # <<"-">>

IntParses(v) == SignedDigits(Strip(v))

(* int(score) for a score that is an int, a bool or such a str. *)
IntOf(score) ==
    IF score.t = "str"
    THEN IF Head(Strip(score.v)) = "-" THEN 0 - ScanDigits(Strip(score.v), 2, 0)[1]
         ELSE ScanDigits(Strip(score.v), 1, 0)[1]
    ELSE AsNumber(score)

RenderSections ==
    << <<"Ambiguities", "ambiguities">>,
       <<"Missing Information", "missing_information">>,
       <<"Assumptions", "assumptions">>,
       <<"Risks & Dependencies", "risks_and_dependencies">>,
       <<"Edge Cases", "edge_cases">>,
       <<"Acceptance Criteria", "acceptance_criteria">>,
       <<"Test Scenarios", "test_scenarios">> >>

(* render_list(title, items) *)
RenderList(title, items) ==
    IF ~Truthy(items)
    THEN [ok |-> TRUE, out |-> <<UI("subheader", Msg(title)), UI("write", Msg("-"))>>]
    ELSE IF ~Iterable(items)
    THEN [ok |-> FALSE, out |-> <<UI("subheader", Msg(title))>>]
    ELSE [ok |-> TRUE,
          out |-> <<UI("subheader", Msg(title))>>
                    \o [i \in 1..Len(Items(items)) |-> UI("write", Items(items)[i])]]

(* The render_list calls from the i-th on, after `out` was displayed. *)
RECURSIVE RenderLists(_, _, _)
RECURSIVE RenderListsAfter(_, _, _, _)
RenderLists(report, i, out) ==
    IF i > Len(RenderSections) THEN [ok |-> TRUE, out |-> out]
    ELSE RenderListsAfter(report, i, out,
                          RenderList(RenderSections[i][1],
                                     Get(report, RenderSections[i][2], JNull)))

RenderListsAfter(report, i, out, one) ==
    IF ~one.ok THEN [ok |-> FALSE, out |-> out \o one.out]
    ELSE RenderLists(report, i + 1, out \o one.out)

(* render_report from the divider on: lists is what the render_list calls  *)
(* displayed after the head of the report.                                 *)
RenderTail(report, lists) ==
    IF ~lists.ok THEN [ok |-> FALSE, error |-> "TypeError", out |-> lists.out]
    ELSE [ok |-> TRUE, error |-> "none",
          out |-> Append(lists.out, UI("download_button", JStr(Dumps(report))))]

(* render_report from "score = report.get(...)" on. *)
RenderScore(report, score) ==
    IF score.t = "str" /\ ~IntParses(score.v)
    THEN [ok |-> FALSE, error |-> "ValueError",
          out |-> <<UI("subheader", Msg("Summary")),
                    UI("write", Get(report, "summary", JStr(<<>>))),
                    UI("subheader", Msg("Clarity Score"))>>]
    ELSE RenderTail(report,
                    RenderLists(report, 1,
                        <<UI("subheader", Msg("Summary")),
                          UI("write", Get(report, "summary", JStr(<<>>))),
                          UI("subheader", Msg("Clarity Score")),
                          UI("metric", IF score.t \in {"int", "bool", "str"}
                                       THEN JInt(IntOf(score)) ELSE JInt(0)),
                          UI("caption", Get(report, "clarity_score_reason", JStr(<<>>)))>>))

(* render_report(report): what it displays, and the exception that ends it *)
RenderReport(report) ==
    IF report.t # "dict"
    THEN [ok |-> FALSE, error |-> "AttributeError",
          out |-> <<UI("subheader", Msg("Summary"))>>]
    ELSE RenderScore(report, Get(report, "clarity_score", JInt(0)))

(* st.session_state: every key the script uses, JNone when absent. *)
SessionKeys == {"last_report", "agent_questions", "agent_req", "agent_answers",
                "improved_report"}
EmptySession == [key \in SessionKeys |-> JNone]
SessionGet(ss, key, default) == IF ss[key] # JNone THEN ss[key] ELSE default

(* The keys the Reset button deletes. *)
ResetKeys == {"agent_questions", "agent_req", "agent_answers", "improved_report"}

Handled(ss, out) == [session |-> ss, out |-> out, call |-> NoCall]

(* "st.success(...); render_report(report)" inside the try: shown is what  *)
(* render_report did; its exception is caught and displayed.               *)
ShowReport(ss, message, shown, call) ==
    [session |-> ss, call |-> call,
     out |-> <<UI("success", Msg(message))>> \o shown.out
               \o (IF shown.ok THEN <<>> ELSE <<UI("error", Msg(shown.error))>>)]

(* The try block of the Analyze button: got is analyze_requirement's result. *)
AnalyzeTry(ss, got) ==
    IF ~got.ok THEN Handled(ss, <<UI("error", Msg(got.error))>>)
    ELSE ShowReport([ss EXCEPT !["last_report"] = got.value], "Analysis complete.",
                    RenderReport(got.value), NoCall)

(* The body of "if st.button('Analyze')" *)
AnalyzeHandler(ss, requirement, hasKey, reply) ==
    IF ~hasKey THEN Handled(ss, <<UI("error", Msg("GEMINI_API_KEY not found"))>>)
    ELSE IF Strip(requirement) = <<>>
    THEN Handled(ss, <<UI("warning", Msg("Please paste a requirement first."))>>)
    ELSE AnalyzeTry(ss, CallLlm(hasKey, reply))

(* The try block of the Generate button: got is                            *)
(* generate_clarifying_questions' result.                                  *)
GenerateTry(ss, agent_req, got) ==
    IF ~got.ok THEN Handled(ss, <<UI("error", Msg(got.error))>>)
    ELSE IF got.value.t # "dict" THEN Handled(ss, <<UI("error", Msg("AttributeError"))>>)
    ELSE Handled([ss EXCEPT
                    !["agent_questions"] =
                        Get(got.value, "clarifying_questions", JList(<<>>)),
                    !["agent_req"] = JStr(Strip(agent_req))],
                 <<UI("success", Msg("Questions generated."))>>)

GenerateUnguarded(agent_req) == TRUE

(* Whether the Generate button's guards let it call the model. *)
GenerateGuard(agent_req) == Strip(agent_req) # <<>>

(* The body of "if st.button('1) Generate clarifying questions')" *)
GenerateHandler(ss, agent_req, hasKey, reply) ==
    IF ~hasKey THEN Handled(ss, <<UI("error", Msg("GEMINI_API_KEY not found"))>>)
    ELSE IF ~GenerateGuard(agent_req)
    THEN Handled(ss, <<UI("warning", Msg("Please paste a requirement first."))>>)
    ELSE GenerateTry(ss, agent_req, CallLlm(hasKey, reply))

(* The body of "if st.button('Reset Agent State')" *)
ResetHandler(ss) ==
    Handled([key \in SessionKeys |-> IF key \in ResetKeys THEN JNone ELSE ss[key]],
            <<UI("success", Msg("Reset done."))>>)

(* The widget key of a question's text input. *)
AnswerKey(qid) == <<"ans_">> \o PyStr(qid)

(* st.text_input(label, key=key): the text the widget holds. *)
TextInput(answers, key) == IF key \in DOMAIN answers THEN answers[key] ELSE <<>>

(* The loop "for q in questions" from the i-th question on: ok is FALSE    *)
(* when it raises (q has no .get, or a widget key is used twice).          *)
RECURSIVE RenderQuestions(_, _, _, _, _)
RECURSIVE RenderQuestion(_, _, _, _, _, _, _)
RenderQuestions(items, i, answers, out, q_and_a) ==
    IF i > Len(items) THEN [ok |-> TRUE, out |-> out, answers |-> q_and_a]
    ELSE IF items[i].t # "dict" THEN [ok |-> FALSE, out |-> out, answers |-> q_and_a]
    ELSE RenderQuestion(items, i, answers, out, q_and_a,
                        Get(items[i], "id", JStr(<<>>)),
                        Get(items[i], "question", JStr(<<>>)))

(* The loop's body for the i-th question, with its id and its text. *)
RenderQuestion(items, i, answers, out, q_and_a, qid, qtext) ==
    IF \E j \in 1..Len(out) : out[j] = UI("text_input", JStr(AnswerKey(qid)))
    THEN [ok |-> FALSE, answers |-> q_and_a,
          out |-> out \o <<UI("markdown", JList(<<qid, qtext>>)),
                           UI("caption", Get(items[i], "why_it_matters", JStr(<<>>)))>>]
    ELSE RenderQuestions(items, i + 1, answers,
                         out \o <<UI("markdown", JList(<<qid, qtext>>)),
                                  UI("caption", Get(items[i], "why_it_matters", JStr(<<>>))),
                                  UI("text_input", JStr(AnswerKey(qid)))>>,
                         Append(q_and_a,
                                [id |-> qid, question |-> qtext,
                                 answer |-> TextInput(answers, AnswerKey(qid))]))

RECURSIVE JoinLines(_, _)
JoinLines(lines, sep) ==
    IF lines = <<>> THEN <<>>
    ELSE IF Len(lines) = 1 THEN lines[1]
    ELSE lines[1] \o sep \o JoinLines(Tail(lines), sep)

(* The qa_lines of improve_with_answers. *)
QaLines(q_and_a) ==
    [i \in 1..Len(q_and_a) |->
        PyStr(q_and_a[i].id) \o <<".", " ">> \o PyStr(q_and_a[i].question)
            \o <<"\n", "Answer:", " ">> \o Strip(q_and_a[i].answer)]

(* improve_with_answers(requirement, q_and_a): its arguments and the       *)
(* transcript it puts in the prompt.                                       *)
ImproveCall(requirement, q_and_a) ==
    [made |-> TRUE, requirement |-> requirement, q_and_a |-> q_and_a,
     qa_text |-> Strip(JoinLines(QaLines(q_and_a), <<"\n", "\n">>))]

ImproveTextArea(ss, agent_req) == Strip(agent_req)

(* The requirement the Improve button works on. *)
ImproveRequirement(ss, agent_req) == Strip(SessionGet(ss, "agent_req", JStr(<<>>)).v)

(* The try block of the Improve button: got is improve_with_answers' result. *)
ImproveTry(ss, call, got) ==
    IF ~got.ok THEN [session |-> ss, call |-> call, out |-> <<UI("error", Msg(got.error))>>]
    ELSE ShowReport([ss EXCEPT !["improved_report"] = got.value],
                    "Improved report generated.", RenderReport(got.value), call)

(* The body of "if st.button('2) Improve analysis using my answers')" from *)
(* "if not req" on.                                                        *)
ImproveWith(ss, req, q_and_a, hasKey, reply) ==
    IF req = <<>>
    THEN Handled(ss, <<UI("error", Msg("Missing requirement in session. Click Reset and try again."))>>)
    ELSE ImproveTry(ss, ImproveCall(req, q_and_a), CallLlm(hasKey, reply))

ImproveHandler(ss, agent_req, q_and_a, hasKey, reply) ==
    ImproveWith(ss, ImproveRequirement(ss, agent_req), q_and_a, hasKey, reply)

ImproveButton == UI("button", Msg("2) Improve analysis using my answers"))

Ran(done, crashed, page) ==
    [session |-> done.session, crashed |-> crashed, call |-> done.call, page |-> page]

(* A run whose Improve button was clicked: done is what its handler did,   *)
(* page what the script displayed before it.                               *)
RanImprove(done, page) ==
    [session |-> done.session, crashed |-> FALSE, call |-> done.call,
     page |-> page \o done.out]

(* The script after the questions were displayed: block is what the loop   *)
(* over the questions did.                                                 *)
AfterQuestions(button, top, block, agent_req, hasKey, reply) ==
    IF ~block.ok THEN Ran(top, TRUE, block.out)
    ELSE IF button # "improve" THEN Ran(top, FALSE, Append(block.out, ImproveButton))
    ELSE RanImprove(ImproveHandler(top.session, agent_req, block.answers, hasKey, reply),
                    Append(block.out, ImproveButton))

(* The script from "questions = st.session_state.get(...)" on: top is what *)
(* the clicked button's handler above that line did.                       *)
FromQuestions(button, top, questions, agent_req, answers, hasKey, reply) ==
    IF ~Truthy(questions)
    THEN Ran(top, FALSE,
             Append(top.out, UI("info", Msg("Click 1) Generate clarifying questions to begin."))))
    ELSE IF ~Iterable(questions)
    THEN Ran(top, TRUE,
             Append(top.out, UI("subheader", Msg("Answer the clarifying questions"))))
    ELSE AfterQuestions(button, top,
                        RenderQuestions(Items(questions), 1, answers,
                                        Append(top.out,
                                               UI("subheader", Msg("Answer the clarifying questions"))),
                                        <<>>),
                        agent_req, hasKey, reply)

(* The buttons above the questions: at most one is clicked in a run. *)
TopHandlers(button, ss, requirement, agent_req, hasKey, reply) ==
    CASE button = "analyze" -> AnalyzeHandler(ss, requirement, hasKey, reply)
      [] button = "generate" -> GenerateHandler(ss, agent_req, hasKey, reply)
      [] button = "reset" -> ResetHandler(ss)
      [] OTHER -> Handled(ss, <<>>)

FromTop(button, top, agent_req, answers, hasKey, reply) ==
    FromQuestions(button, top,
                  SessionGet(top.session, "agent_questions", JList(<<>>)),
                  agent_req, answers, hasKey, reply)

(* One run of the script, top to bottom, with at most one button clicked:  *)
(* the session state it leaves, what it displays, whether an uncaught      *)
(* exception ended it, and the improve_with_answers call it made.          *)
Rerun(button, ss, requirement, agent_req, answers, hasKey, reply) ==
    FromTop(button, TopHandlers(button, ss, requirement, agent_req, hasKey, reply),
            agent_req, answers, hasKey, reply)

----------------------------------------------------------------------------
(* What the console pipeline is run on. *)
ConsoleInputs ==
    { <<>>, << <<>> >>, << <<" ">> >>, << <<"login", " ", "works">>, <<>> >>,
      << <<"login">> >> }

TextReply(t) == [kind |-> "text", text |-> t]
RaiseReply == [kind |-> "raise", text |-> <<>>]
NoneReply == [kind |-> "none", text |-> <<>>]

Report(score, bad, badValue) == BuildReport(Len(REQUIRED_KEYS), {}, score, bad, badValue)

ListValues ==
    {JInt(5), JInt(0), JBool(TRUE), JNull, JStr(<<"soon">>),
     JDict(<<<<"a">>>>, [x \in {<<"a">>} |-> JInt(1)])}

ReplyReports ==
    {Report(80, "", JNull), Report(150, "", JNull), JDict(<<>>, <<>>),
     BuildReport(Len(REQUIRED_KEYS), {"summary"}, 0, "", JNull)}
    \cup {Report(100, "edge_cases", val) : val \in ListValues}
    \cup {Report(80, "clarity_score", JStr(<<"high">>))}

ReplyTexts ==
    {Dumps(r) : r \in ReplyReports}
    \cup {<<"Sure", "!", "\n">> \o Dumps(Report(80, "", JNull)) \o <<"\n", "Bye">>,
          <<"I", " ", "cannot", " ", "help">>,
          <<"{", "summary", "}">>,
          <<"}", " ", "{">>,
          <<"[", "{", "}", "]">>,
          <<"[", "1", "]">>,
          <<>>}

ModelReplies == {RaiseReply, NoneReply} \cup {TextReply(t) : t \in ReplyTexts}

(* What the Streamlit page is run on. *)
RECURSIVE MkDict(_, _)
MkDict(pairs, i) ==
    IF i = 0 THEN JDict(<<>>, <<>>)
    ELSE DictPut(MkDict(pairs, i - 1), <<pairs[i][1]>>, pairs[i][2])

Obj(pairs) == MkDict(pairs, Len(pairs))

QuestionPool ==
    { Obj(<< <<"id", JStr(<<"Q1">>)>>, <<"question", JStr(<<"who">>)>>,
             <<"why_it_matters", JStr(<<"scope">>)>> >>),
      Obj(<< <<"id", JStr(<<"Q2">>)>>, <<"question", JStr(<<"when">>)>> >>) }

RECURSIVE QuestionLists(_)
QuestionLists(n) ==
    IF n = 0 THEN {<<>>}
    ELSE LET shorter == QuestionLists(n - 1)
         IN  shorter \cup {Append(qs, q) : qs \in {x \in shorter : Len(x) = n - 1},
                                           q \in QuestionPool}

ClarifyValues ==
    {JList(qs) : qs \in QuestionLists(MaxQuestions)}
    \cup {JInt(5), JStr(<<"ab">>), JList(<<JInt(1)>>), JList(<<JDict(<<>>, <<>>)>>)}

ClarifyReplies ==
    {TextReply(Dumps(Obj(<< <<"clarifying_questions", val>> >>))) : val \in ClarifyValues}
    \cup {TextReply(<<"[", "1", "]">>), TextReply(<<"{", "}">>),
          TextReply(<<"Sorry">>), RaiseReply, NoneReply}

SmallReport == Obj(<< <<"summary", JStr(<<"ok">>)>>, <<"clarity_score", JInt(80)>> >>)

ReportReplies ==
    { TextReply(Dumps(SmallReport)),
      TextReply(Dumps(Obj(<< <<"clarity_score", JStr(<<"high">>)>> >>))),
      TextReply(Dumps(Obj(<< <<"edge_cases", JInt(5)>> >>))),
      TextReply(<<"[", "{", "}", "]">>),
      TextReply(<<"{", "summary", "}">>),
      RaiseReply }

RequirementTexts == {<<>>, <<" ", "login">>, <<"logout">>}
AnswerTexts == {<<>>, <<" ", "yes">>}
AnswerKeys == {AnswerKey(JStr(<<"Q1">>)), AnswerKey(JStr(<<"Q2">>))}

(* The model's replies to the Improve prompt: a report, one that           *)
(* render_report fails on, and a failed call.                              *)
ImproveReplies ==
    { TextReply(Dumps(SmallReport)),
      TextReply(Dumps(Obj(<< <<"edge_cases", JInt(5)>> >>))),
      RaiseReply }

----------------------------------------------------------------------------
RECURSIVE TextsUpTo(_)
TextsUpTo(n) ==
    IF n = 0 THEN {<<>>}
    ELSE LET shorter == TextsUpTo(n - 1)
         IN  shorter \cup {Append(s, c) : s \in {x \in shorter : Len(x) = n - 1}, c \in Alphabet}


NoRun == [status |-> "none", stdout |-> <<>>, wrote |-> FALSE]
NoAnswers == [key \in AnswerKeys |-> <<>>]
NoRerun == [button |-> "none", page |-> <<>>, crashed |-> FALSE, call |-> NoCall]
NoGen == [set |-> FALSE, req |-> JNone, questions |-> JNone]

ExtractInit ==
    /\ text \in TextsUpTo(MaxLen)
    /\ ra_out = Pending
    /\ st_out = Pending
    /\ last_report_json = NoFile
    /\ smoke_out = SmokePending
    /\ console = NoRun
    /\ api_key = FALSE
    /\ session = EmptySession
    /\ requirement_area = <<>>
    /\ agent_requirement = <<>>
    /\ ans_inputs = NoAnswers
    /\ run = NoRerun
    /\ gen = NoGen

RunReqExtract ==
    /\ ra_out = Pending
    /\ ra_out' = ReqExtractJson(text)
    /\ UNCHANGED <<text, st_out, consoleVars, pageVars>>

RunStExtract ==
    /\ st_out = Pending
    /\ st_out' = StExtractJson(text)
    /\ UNCHANGED <<text, ra_out, consoleVars, pageVars>>

ExtractNext == RunReqExtract \/ RunStExtract

SpecExtract == ExtractInit /\ [][ExtractNext]_vars

(* The smoke test on a report file. *)
ValidateInit ==
    /\ last_report_json \in {NoFile} \cup {File(Dumps(r)) : r \in ReportInputs}
    /\ smoke_out = SmokePending
    /\ text = <<>>
    /\ ra_out = Pending
    /\ st_out = Pending
    /\ console = NoRun
    /\ api_key = FALSE
    /\ session = EmptySession
    /\ requirement_area = <<>>
    /\ agent_requirement = <<>>
    /\ ans_inputs = NoAnswers
    /\ run = NoRerun
    /\ gen = NoGen

RunSmokeTest ==
    /\ smoke_out' = SmokeMain(last_report_json)
    /\ UNCHANGED <<last_report_json, extractVars, console, pageVars>>

ValidateNext == RunSmokeTest

SpecValidate == ValidateInit /\ [][ValidateNext]_vars

(* Runs of the console pipeline, and of the smoke test on the file. *)
ConsoleInit ==
    /\ last_report_json = NoFile
    /\ smoke_out = SmokePending
    /\ console = NoRun
    /\ text = <<>>
    /\ ra_out = Pending
    /\ st_out = Pending
    /\ api_key = FALSE
    /\ session = EmptySession
    /\ requirement_area = <<>>
    /\ agent_requirement = <<>>
    /\ ans_inputs = NoAnswers
    /\ run = NoRerun
    /\ gen = NoGen

(* The state a run of main leaves. *)
ConsoleDone(done) ==
    /\ console' = [status |-> done.status, stdout |-> done.stdout, wrote |-> done.wrote]
    /\ last_report_json' = done.file
    /\ UNCHANGED <<smoke_out, extractVars, pageVars>>

ConsoleMain ==
    \E lines \in ConsoleInputs, hasKey \in BOOLEAN, reply \in ModelReplies :
        ConsoleDone(Main(lines, hasKey, reply, last_report_json))

ConsoleNext == ConsoleMain \/ RunSmokeTest

SpecConsole == ConsoleInit /\ [][ConsoleNext]_vars

(* The Streamlit page: every action is one run of the script. *)
PageInit ==
    /\ api_key \in BOOLEAN
    /\ session = EmptySession
    /\ requirement_area = <<>>
    /\ agent_requirement = <<>>
    /\ ans_inputs = NoAnswers
    /\ run = [button |-> "none", crashed |-> FALSE, call |-> NoCall,
              page |-> Rerun("none", EmptySession, <<>>, <<>>, NoAnswers, api_key,
                             RaiseReply).page]
    /\ gen = NoGen
    /\ last_report_json = NoFile
    /\ smoke_out = SmokePending
    /\ console = NoRun
    /\ text = <<>>
    /\ ra_out = Pending
    /\ st_out = Pending

(* The text inputs' contents after a run that displayed `page`: a keyed    *)
(* widget keeps its text while the script displays it.                     *)
WidgetState(ans, page) ==
    [key \in DOMAIN ans |->
        IF UI("text_input", JStr(key)) \in SeqRange(page) THEN ans[key] ELSE <<>>]

(* The state a run r of the script leaves, with `button` clicked and the   *)
(* widgets holding the given contents.                                     *)
Ran2State(button, r, requirement, agent_req, ans) ==
    /\ session' = r.session
    /\ run' = [button |-> button, page |-> r.page, crashed |-> r.crashed,
               call |-> r.call]
    /\ requirement_area' = requirement
    /\ agent_requirement' = agent_req
    /\ ans_inputs' = WidgetState(ans, r.page)
    /\ gen' = IF UI("success", Msg("Questions generated.")) \in SeqRange(r.page)
              THEN [set |-> TRUE, req |-> r.session["agent_req"],
                    questions |-> r.session["agent_questions"]]
              ELSE gen
    /\ UNCHANGED <<api_key, extractVars, consoleVars>>

(* The script runs on the widgets' new contents with `button` clicked. *)
Script(button, reply, requirement, agent_req, ans) ==
    Ran2State(button,
              Rerun(button, session, requirement, agent_req, ans, api_key, reply),
              requirement, agent_req, ans)

Displayed(el) == el \in SeqRange(run.page)

TypeRequirement ==
    \E t \in RequirementTexts :
        /\ t # requirement_area
        /\ Script("none", RaiseReply, t, agent_requirement, ans_inputs)

ClickAnalyze ==
    \E reply \in ReportReplies :
        Script("analyze", reply, requirement_area, agent_requirement, ans_inputs)

TypeAgentRequirement ==
    \E t \in RequirementTexts :
        /\ t # agent_requirement
        /\ Script("none", RaiseReply, requirement_area, t, ans_inputs)

TypeAnswer ==
    \E key \in AnswerKeys, t \in AnswerTexts :
        /\ Displayed(UI("text_input", JStr(key)))
        /\ t # ans_inputs[key]
        /\ Script("none", RaiseReply, requirement_area, agent_requirement,
                  [ans_inputs EXCEPT ![key] = t])

ClickGenerate ==
    \E reply \in ClarifyReplies :
        Script("generate", reply, requirement_area, agent_requirement, ans_inputs)

ClickReset ==
    Script("reset", RaiseReply, requirement_area, agent_requirement, ans_inputs)

ClickImprove ==
    \E reply \in ImproveReplies :
        /\ Displayed(ImproveButton)
        /\ Script("improve", reply, requirement_area, agent_requirement, ans_inputs)

AnalyzerNext == TypeRequirement \/ ClickAnalyze

SpecAnalyzer == PageInit /\ [][AnalyzerNext]_vars

AgentNext ==
    \/ TypeAgentRequirement
    \/ TypeAnswer
    \/ ClickGenerate
    \/ ClickReset
    \/ ClickImprove

SpecAgent == PageInit /\ [][AgentNext]_vars

----------------------------------------------------------------------------
(* Properties of extract_json. *)
BraceFree(s) == \A i \in 1..Len(s) : s[i] \notin {"{", "}"}

IsJsonObject(j) == Loads(j).ok /\ Loads(j).val.t = "dict"

HasBoth(t) == Find(t, "{") # -1 /\ RFind(t, "}") # -1

(* The text from the first "{" through the last "}". *)
Span(t) == PySlice(t, Find(t, "{"), RFind(t, "}") + 1)

PrefixJsonSuffixOk(out, t) ==
    \A a \in 0..Len(t) : \A b \in a..Len(t) :
        LET prefix == SubSeq(t, 1, a)
            json == SubSeq(t, a + 1, b)
            suffix == SubSeq(t, b + 1, Len(t))
        IN  (BraceFree(prefix) /\ BraceFree(suffix) /\ IsJsonObject(json))
                => (out.kind = "return" /\ JEq(out.value, Loads(json).val))

(* C1: on prefix + json_text + suffix, json_text a valid JSON object and   *)
(* prefix, suffix free of braces, both extract_json return a value equal   *)
(* to parse(json_text).                                                    *)
C1_PrefixJsonSuffix ==
    /\ ra_out # Pending => PrefixJsonSuffixOk(ra_out, text)
    /\ st_out # Pending => PrefixJsonSuffixOk(st_out, text)

NoJsonFoundOk(out, t) ==
    (~HasBoth(t)) => (out.kind = "NoJsonFound" /\ t \in SeqRange(out.carried))

(* C2: on the empty string and on any text without "{" or without "}",     *)
(* both extract_json fail with NoJsonFound, which carries the original     *)
(* text.                                                                   *)
C2_NoBraceNoJsonFound ==
    /\ ra_out # Pending => NoJsonFoundOk(ra_out, text)
    /\ st_out # Pending => NoJsonFoundOk(st_out, text)

(* C3: when both braces occur and the last "}" precedes the first "{",      *)
(* req_analyzer's extract_json fails with NoJsonFound and hands nothing to *)
(* the JSON parser.                                                        *)
C3_CloseBeforeOpen ==
    (ra_out # Pending /\ HasBoth(text) /\ RFind(text, "}") < Find(text, "{"))
        => (ra_out.kind = "NoJsonFound" /\ ra_out.loads = <<>>)

MalformedOk(out, t) ==
    (HasBoth(t) /\ Find(t, "{") < RFind(t, "}") /\ ~Loads(Span(t)).ok)
        => (/\ out.kind \in {"JSONDecodeError", "FailedToParse"}
            /\ out.carried # <<>>
            /\ Head(out.carried) = Span(t))

(* C4: when the span from the first "{" through the last "}" is not valid   *)
(* JSON, extract_json fails with a MalformedJson error carrying exactly    *)
(* that span, and returns no value.                                        *)
C4_MalformedSpan ==
    /\ ra_out # Pending => MalformedOk(ra_out, text)
    /\ st_out # Pending => MalformedOk(st_out, text)

ReturnsObject(out) == out.kind = "return" => out.value.t = "dict"

(* C10: whenever extract_json returns, the value is a JSON object (dict),   *)
(* for both implementations.                                               *)
C10_ReturnsDict == ReturnsObject(ra_out) /\ ReturnsObject(st_out)

----------------------------------------------------------------------------
(* Properties of the report validation. *)
WellTyped(data, i) ==
    <<REQUIRED_KEYS[i][1]>> \in SeqRange(data.k)
        => LET val == data.v[<<REQUIRED_KEYS[i][1]>>]
           IN  val.t = (IF REQUIRED_KEYS[i][2] = "int" THEN "int" ELSE REQUIRED_KEYS[i][2])

(* The report the file holds, when it holds one. *)
FileReport == Loads(last_report_json.content).val

(* A Quality Report but for the keys it lacks and for its score's value. *)
OtherwiseValid(data) ==
    /\ data.t = "dict"
    /\ \A i \in 1..Len(REQUIRED_KEYS) : WellTyped(data, i)

LacksExactly(data, key) == SeqRange(data.k) = {<<x>> : x \in Keys \ {key}}

HasScore(data, n) ==
    /\ SeqRange(data.k) = {<<x>> : x \in Keys}
    /\ data.v[<<"clarity_score">>] = JInt(n)

Validated == smoke_out # SmokePending /\ last_report_json.exists

(* C5: on an otherwise valid Quality Report, a single missing required key *)
(* fails the validation with a message naming that key; clarity_score -1   *)
(* or 101 fails it with the out-of-range failure; 0 or 100 passes.         *)
C5_ValidatorContract ==
    (Validated /\ Loads(last_report_json.content).ok /\ OtherwiseValid(FileReport))
        => /\ \A key \in Keys :
                  LacksExactly(FileReport, key)
                      => smoke_out = [exit |-> 2, msg |-> <<"FAIL", "missing key", key>>]
           /\ \A n \in {-1, 101} :
                  HasScore(FileReport, n)
                      => /\ smoke_out.exit = 2
                         /\ smoke_out.msg[2] = "clarity_score out of range"
           /\ \A n \in {0, 100} : HasScore(FileReport, n) => smoke_out = SmokeOk

C5_Witness ==
    /\ Validated
    /\ OtherwiseValid(FileReport)
    /\ HasScore(FileReport, 100)
    /\ smoke_out = SmokeOk

----------------------------------------------------------------------------
(* Properties of the console pipeline. *)
FailureStatuses ==
    {"EOFError", "KeyError", "TransportError", "NoJsonFound", "JSONDecodeError",
     "TypeError"}

(* The lines of a run that are part of a report. *)
ReportLines(stdout) ==
    {i \in 1..Len(stdout) :
        stdout[i].line \notin {PromptLine.line, "No requirement provided. Exiting."}}

(* An Analyze or Improve action that ended with st.error. *)
PageHasError == \E i \in 1..Len(run.page) : run.page[i].el = "error"

(* C6: a failed run ends with no part of a report emitted: no report        *)
(* section printed, last_report.json neither written nor changed.          *)
C6_NoPartialReport ==
    /\ console.status \in FailureStatuses
           => (ReportLines(console.stdout) = {} /\ ~console.wrote)
    /\ (run.button \in {"analyze", "improve"} /\ PageHasError)
           => ~Displayed(UI("subheader", Msg("Summary")))

(* C7: whenever last_report.json has been written, it holds a Quality       *)
(* Report that passes smoke_test.main, clarity_score within [0,100].       *)
C7_FileIsQualityReport ==
    last_report_json.exists => SmokeMain(last_report_json) = SmokeOk

----------------------------------------------------------------------------
(* Properties of Agent Mode. *)

(* The Q&A entry the i-th stored question pairs with the answer entered. *)
ExpectedEntry(q) ==
    [id |-> Get(q, "id", JStr(<<>>)),
     question |-> Get(q, "question", JStr(<<>>)),
     answer |-> TextInput(ans_inputs, AnswerKey(Get(q, "id", JStr(<<>>))))]

(* The transcript line of a Q&A entry: "<id>. <question>\nAnswer: <answer>" *)
ExpectedLine(e) ==
    PyStr(e.id) \o <<".", " ">> \o PyStr(e.question) \o <<"\n", "Answer:", " ">>
        \o Strip(e.answer)

(* C8: every Improve call is made with the requirement and the question    *)
(* list stored together by the most recent successful Generate; its Q&A    *)
(* has one entry per stored question, in the stored order, pairing the     *)
(* question's id and text with the answer entered for that id, and the     *)
(* transcript has one line per entry; the requirement text area is not     *)
(* what the call is made with.                                             *)
C8_ImproveUsesStored ==
    run.call.made
        => /\ gen.set
           /\ session["agent_req"] = gen.req
           /\ session["agent_questions"] = gen.questions
           /\ run.call.requirement = gen.req.v
           /\ gen.questions.t = "list"
           /\ Len(run.call.q_and_a) = Len(gen.questions.v)
           /\ \A i \in 1..Len(gen.questions.v) :
                  run.call.q_and_a[i] = ExpectedEntry(gen.questions.v[i])
           /\ run.call.qa_text =
                  Strip(JoinLines([i \in 1..Len(gen.questions.v) |->
                                      ExpectedLine(ExpectedEntry(gen.questions.v[i]))],
                                  <<"\n", "\n">>))

(* An Improve call on two stored questions, one of them answered, while    *)
(* the text area holds another requirement than the stored one.            *)
C8_Witness ==
    /\ run.button = "improve"
    /\ run.call.made
    /\ Len(run.call.q_and_a) = 2
    /\ \E i \in 1..2 : Strip(run.call.q_and_a[i].answer) # <<>>
    /\ Strip(agent_requirement) # run.call.requirement
    /\ Strip(agent_requirement) # <<>>

(* C9: a non-empty agent_questions in the session state implies agent_req  *)
(* is present and non-empty after stripping, and the Improve button's      *)
(* "Missing requirement in session" error is never displayed.              *)
C9_QuestionsImplyRequirement ==
    /\ Truthy(session["agent_questions"])
           => /\ session["agent_req"] # JNone
              /\ session["agent_req"].t = "str"
              /\ Strip(session["agent_req"].v) # <<>>
    /\ ~Displayed(UI("error", Msg("Missing requirement in session. Click Reset and try again.")))

(* The Improve button clicked with questions stored: its handler finds the *)
(* stored requirement and makes the call.                                  *)
C9_Witness ==
    /\ Truthy(session["agent_questions"])
    /\ run.button = "improve"
    /\ run.call.made
    /\ run.call.requirement = Strip(session["agent_req"].v)

====
